---- MODULE Spec2Model ----
(***************************************************************************)
(* Transport-information page of the property dashboard                    *)
(* (src/pages/3_Transport_Info.py): the geocode resolver, the              *)
(* nearby-transport aggregator get_google_places_data with its             *)
(* classification, deduplication and distance computation, the two         *)
(* st.cache_data memoizations, and the page's lookup flow.                 *)
(*                                                                         *)
(* Python values are encoded as follows.  An optional value (a dict key    *)
(* that may be missing or None, an argument defaulting to None) is a       *)
(* sequence: <<>> is None and <<v>> is the value v.  A str is a sequence   *)
(* of one-character strings, so that lower(), upper(), strip() and the     *)
(* substring test are computed, not assumed.                               *)
(***************************************************************************)
EXTENDS Integers, Sequences, FiniteSets, TLC

VARIABLES
    provider,         \* what the places provider may answer: its places
                      \* (catalogue) and, per query, the outcomes of the request;
                      \* what the geocoder may answer; the widget identity of
                      \* the Streamlit release
    args,             \* arguments of the running get_google_places_data call
    pc,               \* position in get_google_places_data
    qi,               \* index (1..7) of the query of the for loop
    remaining,        \* results of the current response not yet iterated
    all_places_dict,  \* insertion-ordered dict, as the sequence of its values
    issued,           \* indices of the queries requests.get was called for
    result,           \* value returned by the call
    place,            \* the loop variable of the results loop
    lastStep,         \* what the last loop step did (history)
    skipped,          \* a candidate of the current response was skipped for
                      \* lacking place_id (history)
    seen,             \* per place_id, the first candidate iterated with it:
                      \* its query, its app_type, and whether a later query
                      \* returned the identifier again (history)
    places_cache,     \* st.cache_data of get_google_places_data: key -> value
                      \* and the time it was stored
    now,              \* the clock, in seconds
    computed,         \* per argument tuple, the result the function body last
                      \* returned and when (history)
    prior,            \* at the last call: the results computed within the
                      \* time-to-live for the same (lat, lon, radius), and for
                      \* the same five arguments (history)
    session,          \* st.session_state: postcode_for_search and
                      \* search_triggered_by_example
    widget,           \* the postcode text entry: the value parameter it was
                      \* created with and the text it holds
    radius_m,         \* the radius slider, in metres
    page_pc,          \* position of the page: a rerun is due ("rerun"), the
                      \* script waits for the geocoding response ("geocode")
                      \* or for get_google_places_data ("places"), or the run
                      \* is over and the page waits for the user ("idle")
    run,              \* the current (or last) script run: what it called and
                      \* what it showed
    geocode_cache,    \* st.cache_data of get_google_geocode_data
    runs              \* script runs so far

aggVars == <<args, pc, qi, remaining, all_places_dict, issued, result,
             place, lastStep, skipped, seen>>

cacheVars == <<places_cache, now, computed, prior>>

pageVars == <<session, widget, radius_m, page_pc, run, geocode_cache, runs>>

vars == <<provider, aggVars, cacheVars, pageVars>>

----------------------------------------------------------------------------
(* Bounds of the model *)

\* most results a single response carries
MaxResults == 2

\* most clock ticks of a behaviour
MaxTicks == 3

\* most script runs of a behaviour
MaxRuns == 6

\* the example buttons the user clicks are among the first MaxExample
MaxExample == 2

\* most places of an aggregated result handed to the details tab
MaxMembers == 4

----------------------------------------------------------------------------
(* Python values *)

None == <<>>

Some(v) == <<v>>

\* variant: only None counts as a missing identifier
TruthyStrNotNone(o) == o # None

\* truthiness of an optional str: None and "" are falsy
TruthyStr(o) == o # None /\ o[1] # <<>>

\* truthiness of an optional number: None and 0 are falsy
TruthyNum(o) == o # None /\ o[1] # 0

\* Python's `a or b` on optional numbers
OrNum(a, b) == IF TruthyNum(a) THEN a ELSE b

UpperAlphabet ==
    <<"A", "B", "C", "D", "E", "F", "G", "H", "I", "J", "K", "L", "M",
      "N", "O", "P", "Q", "R", "S", "T", "U", "V", "W", "X", "Y", "Z">>

LowerAlphabet ==
    <<"a", "b", "c", "d", "e", "f", "g", "h", "i", "j", "k", "l", "m",
      "n", "o", "p", "q", "r", "s", "t", "u", "v", "w", "x", "y", "z">>

\* str.lower() of one character
LowerChar(c) ==
    IF \E i \in 1..26 : UpperAlphabet[i] = c
    THEN LowerAlphabet[CHOOSE i \in 1..26 : UpperAlphabet[i] = c]
    ELSE c

\* str.lower()
Lower(s) == [i \in 1..Len(s) |-> LowerChar(s[i])]

\* Python's `sub in s` on strings
Contains(sub, s) ==
    \E i \in 0..(Len(s) - Len(sub)) : SubSeq(s, i + 1, i + Len(sub)) = sub

StrMetrolink == <<"m", "e", "t", "r", "o", "l", "i", "n", "k">>

StrTram == <<"t", "r", "a", "m">>

----------------------------------------------------------------------------
(* haversine: the rounded great-circle distance in metres.  The values are *)
(* those of the function on the whole-degree grid the model draws its      *)
(* coordinates from.                                                       *)

GridLats == {0, 53, 54}

GridLons == {-2, -1, 0}

HaversineTable ==
    <<0, -2, 0, -2>> :> 0 @@ <<0, -2, 0, -1>> :> 111195 @@ <<0, -2, 0, 0>> :> 222390 @@
    <<0, -2, 53, -2>> :> 5893331 @@ <<0, -2, 53, -1>> :> 5894062 @@ <<0, -2, 53, 0>> :> 5896255 @@
    <<0, -2, 54, -2>> :> 6004526 @@ <<0, -2, 54, -1>> :> 6005231 @@ <<0, -2, 54, 0>> :> 6007345 @@
    <<0, -1, 0, -2>> :> 111195 @@ <<0, -1, 0, -1>> :> 0 @@ <<0, -1, 0, 0>> :> 111195 @@
    <<0, -1, 53, -2>> :> 5894062 @@ <<0, -1, 53, -1>> :> 5893331 @@ <<0, -1, 53, 0>> :> 5894062 @@
    <<0, -1, 54, -2>> :> 6005231 @@ <<0, -1, 54, -1>> :> 6004526 @@ <<0, -1, 54, 0>> :> 6005231 @@
    <<0, 0, 0, -2>> :> 222390 @@ <<0, 0, 0, -1>> :> 111195 @@ <<0, 0, 0, 0>> :> 0 @@
    <<0, 0, 53, -2>> :> 5896255 @@ <<0, 0, 53, -1>> :> 5894062 @@ <<0, 0, 53, 0>> :> 5893331 @@
    <<0, 0, 54, -2>> :> 6007345 @@ <<0, 0, 54, -1>> :> 6005231 @@ <<0, 0, 54, 0>> :> 6004526 @@
    <<53, -2, 0, -2>> :> 5893331 @@ <<53, -2, 0, -1>> :> 5894062 @@ <<53, -2, 0, 0>> :> 5896255 @@
    <<53, -2, 53, -2>> :> 0 @@ <<53, -2, 53, -1>> :> 66918 @@ <<53, -2, 53, 0>> :> 133833 @@
    <<53, -2, 54, -2>> :> 111195 @@ <<53, -2, 54, -1>> :> 129376 @@ <<53, -2, 54, 0>> :> 172797 @@
    <<53, -1, 0, -2>> :> 5894062 @@ <<53, -1, 0, -1>> :> 5893331 @@ <<53, -1, 0, 0>> :> 5894062 @@
    <<53, -1, 53, -2>> :> 66918 @@ <<53, -1, 53, -1>> :> 0 @@ <<53, -1, 53, 0>> :> 66918 @@
    <<53, -1, 54, -2>> :> 129376 @@ <<53, -1, 54, -1>> :> 111195 @@ <<53, -1, 54, 0>> :> 129376 @@
    <<53, 0, 0, -2>> :> 5896255 @@ <<53, 0, 0, -1>> :> 5894062 @@ <<53, 0, 0, 0>> :> 5893331 @@
    <<53, 0, 53, -2>> :> 133833 @@ <<53, 0, 53, -1>> :> 66918 @@ <<53, 0, 53, 0>> :> 0 @@
    <<53, 0, 54, -2>> :> 172797 @@ <<53, 0, 54, -1>> :> 129376 @@ <<53, 0, 54, 0>> :> 111195 @@
    <<54, -2, 0, -2>> :> 6004526 @@ <<54, -2, 0, -1>> :> 6005231 @@ <<54, -2, 0, 0>> :> 6007345 @@
    <<54, -2, 53, -2>> :> 111195 @@ <<54, -2, 53, -1>> :> 129376 @@ <<54, -2, 53, 0>> :> 172797 @@
    <<54, -2, 54, -2>> :> 0 @@ <<54, -2, 54, -1>> :> 65358 @@ <<54, -2, 54, 0>> :> 130713 @@
    <<54, -1, 0, -2>> :> 6005231 @@ <<54, -1, 0, -1>> :> 6004526 @@ <<54, -1, 0, 0>> :> 6005231 @@
    <<54, -1, 53, -2>> :> 129376 @@ <<54, -1, 53, -1>> :> 111195 @@ <<54, -1, 53, 0>> :> 129376 @@
    <<54, -1, 54, -2>> :> 65358 @@ <<54, -1, 54, -1>> :> 0 @@ <<54, -1, 54, 0>> :> 65358 @@
    <<54, 0, 0, -2>> :> 6007345 @@ <<54, 0, 0, -1>> :> 6005231 @@ <<54, 0, 0, 0>> :> 6004526 @@
    <<54, 0, 53, -2>> :> 172797 @@ <<54, 0, 53, -1>> :> 129376 @@ <<54, 0, 53, 0>> :> 111195 @@
    <<54, 0, 54, -2>> :> 130713 @@ <<54, 0, 54, -1>> :> 65358 @@ <<54, 0, 54, 0>> :> 0

haversine(lat1, lon1, lat2, lon2) == HaversineTable[<<lat1, lon1, lat2, lon2>>]

----------------------------------------------------------------------------
(* get_google_places_data *)

\* the arguments of one call
Args(lat, lon, radius, origin_lat, origin_lon) ==
    [lat |-> lat, lon |-> lon, radius |-> radius,
     origin_lat |-> origin_lat, origin_lon |-> origin_lon]

\* the fixed list of queries
queries ==
    << [type |-> "train_station"],
       [type |-> "subway_station"],
       [type |-> "light_rail_station"],
       [keyword |-> "Metrolink station"],
       [keyword |-> "tram stop"],
       [type |-> "bus_station"],
       [keyword |-> "bus stop"] >>

\* variant: the category tags are tested before the name
AppTypeTagsFirst(place_name_lower, google_types) ==
    IF "subway_station" \in google_types THEN Some("tube_station")
    ELSE IF Contains(StrMetrolink, place_name_lower) THEN Some("tram_stop")
    ELSE IF "light_rail_station" \in google_types THEN Some("tram_stop")
    ELSE IF Contains(StrTram, place_name_lower)
            /\ "train_station" \notin google_types THEN Some("tram_stop")
    ELSE IF "train_station" \in google_types THEN Some("train_station")
    ELSE IF "bus_station" \in google_types \/ "bus_stop" \in google_types
         THEN Some("bus_stop")
    ELSE None

\* variant: train_station is tested before light_rail_station
AppTypeTrainFirst(place_name_lower, google_types) ==
    IF Contains(StrMetrolink, place_name_lower) THEN Some("tram_stop")
    ELSE IF "subway_station" \in google_types THEN Some("tube_station")
    ELSE IF "train_station" \in google_types THEN Some("train_station")
    ELSE IF "light_rail_station" \in google_types THEN Some("tram_stop")
    ELSE IF Contains(StrTram, place_name_lower) THEN Some("tram_stop")
    ELSE IF "bus_station" \in google_types \/ "bus_stop" \in google_types
         THEN Some("bus_stop")
    ELSE None

\* the if/elif chain assigning app_type; <<>> when no branch is taken
AppType(place_name_lower, google_types) ==
    IF Contains(StrMetrolink, place_name_lower) THEN Some("tram_stop")
    ELSE IF "subway_station" \in google_types THEN Some("tube_station")
    ELSE IF "light_rail_station" \in google_types THEN Some("tram_stop")
    ELSE IF Contains(StrTram, place_name_lower)
            /\ "train_station" \notin google_types THEN Some("tram_stop")
    ELSE IF "train_station" \in google_types THEN Some("train_station")
    ELSE IF "bus_station" \in google_types \/ "bus_stop" \in google_types
         THEN Some("bus_stop")
    ELSE None

\* distance_val of a newly inserted place
DistanceVal(lat, lon, origin_lat, origin_lon, place_lat, place_lon) ==
    IF TruthyNum(origin_lat) /\ TruthyNum(origin_lon)
    THEN Some(haversine(OrNum(origin_lat, Some(lat))[1],
                        OrNum(origin_lon, Some(lon))[1],
                        place_lat, place_lon))
    ELSE None

\* variant: a place is stored whether or not its identifier is recorded
NotInDictAlways(place_id, d) == TRUE

\* `place_id not in all_places_dict`
NotInDict(place_id, d) == \A i \in 1..Len(d) : d[i].google_place_id # place_id

\* the value stored under place_id
NewEntry(p, app_type, a, query_detail) ==
    [ name |-> p.name,
      latitude |-> p.geometry[1][1],
      longitude |-> p.geometry[1][2],
      type |-> app_type,
      description |-> p.vicinity,
      google_place_id |-> p.place_id[1],
      distance |-> DistanceVal(a.lat, a.lon, a.origin_lat, a.origin_lon,
                               p.geometry[1][1], p.geometry[1][2]),
      google_types |-> p.types,
      debug_query_source |-> query_detail ]

NoResult == [pending |-> TRUE]

\* return {"member": list(all_places_dict.values())}
MemberResult(d) == [member |-> d]

\* variant: a failure drops what was accumulated
ErrorResultEmpty(e, d) == [error |-> e, member |-> <<>>]

\* return {"error": str(e), "member": list(all_places_dict.values())}
ErrorResult(e, d) == [error |-> e, member |-> d]

\* outcomes of requests.get / raise_for_status / response.json / data["status"]
\* that raise inside the try block
RequestFailures == {"RequestException", "JSONDecodeError", "KeyError: 'status'"}

Statuses == {"OK", "ZERO_RESULTS", "OVER_QUERY_LIMIT"}

\* place.get("name", "").lower()
PlaceNameLower(p) == Lower(IF p.name = None THEN <<>> ELSE p.name[1])

\* @st.cache_data(ttl=600)
CacheTtl == 600

\* variant: the origin is left out of the key
CacheKeyNoOrigin(a) == [a EXCEPT !.origin_lat = None, !.origin_lon = None]

\* the key of a memoized call: every argument of the function
CacheKey(a) == a

\* variant: entries never expire
CacheValidForever(entry, t) == TRUE

\* an entry is served while its age is below the time-to-live
CacheValid(entry, t) == t < entry.stored + CacheTtl

CacheHit(a) ==
    /\ CacheKey(a) \in DOMAIN places_cache
    /\ CacheValid(places_cache[CacheKey(a)], now)

\* the function body returns value: the wrapper stores it and hands it back
Returns(value) ==
    /\ result' = value
    /\ pc' = "done"
    /\ places_cache' =
           (CacheKey(args) :> [value |-> value, stored |-> now]) @@ places_cache
    /\ computed' = (args :> [value |-> value, at |-> now]) @@ computed
    /\ UNCHANGED <<now, prior>>

\* history: the results computed within the time-to-live before a call of a
PriorResults(a) ==
    LET fresh == {k \in DOMAIN computed : now < computed[k].at + CacheTtl}
    IN  [ same3 |-> {computed[k].value :
                       k \in {k \in fresh : /\ k.lat = a.lat
                                            /\ k.lon = a.lon
                                            /\ k.radius = a.radius}},
          same5 |-> {computed[k].value : k \in {k \in fresh : k = a}} ]

\* a call of the memoized get_google_places_data(a): a fresh entry is handed
\* back without running the body, otherwise the body starts
CachedCall(a) ==
    /\ args' = a
    /\ prior' = PriorResults(a)
    /\ qi' = 1
    /\ remaining' = 0
    /\ all_places_dict' = <<>>
    /\ issued' = <<>>
    /\ place' = None
    /\ skipped' = FALSE
    /\ seen' = {}
    /\ IF CacheHit(a)
       THEN /\ result' = places_cache[CacheKey(a)].value
            /\ pc' = "done"
            /\ lastStep' = "cached"
       ELSE /\ result' = NoResult
            /\ pc' = "request"
            /\ lastStep' = "start"
    /\ UNCHANGED <<places_cache, now, computed>>

\* One pass of the for loop up to the results loop: the request of query qi
\* fails (the except branches return), or its payload arrives.
SendQueryFails(e) ==
    /\ pc = "request" /\ qi <= Len(queries)
    /\ <<"raise", e, 0>> \in provider.places[qi]
    /\ issued' = Append(issued, qi)
    /\ Returns(ErrorResult(e, all_places_dict))
    /\ lastStep' = "raised"
    /\ UNCHANGED <<args, qi, remaining, all_places_dict, place, skipped, seen,
                   provider, pageVars>>

\* variant: an error status of the provider ends the call like a failure
SendQueryStatusFatal(status, n) ==
    /\ pc = "request" /\ qi <= Len(queries)
    /\ <<"status", status, n>> \in provider.places[qi]
    /\ issued' = Append(issued, qi)
    /\ IF status = "OK" /\ n > 0
       THEN /\ pc' = "iterate"
            /\ remaining' = n
            /\ qi' = qi
            /\ result' = result
       ELSE IF status \in {"OK", "ZERO_RESULTS"}
       THEN /\ pc' = "request"
            /\ remaining' = 0
            /\ qi' = qi + 1
            /\ result' = result
       ELSE /\ pc' = "done"
            /\ remaining' = 0
            /\ qi' = qi
            /\ result' = ErrorResult(status, all_places_dict)
    /\ lastStep' = IF status = "OK" THEN "ok"
                   ELSE IF status = "ZERO_RESULTS" THEN "zero_results"
                   ELSE "warned"
    /\ skipped' = FALSE
    /\ UNCHANGED <<args, all_places_dict, place, seen, provider, cacheVars,
                   pageVars>>

SendQuery(status, n) ==
    /\ pc = "request" /\ qi <= Len(queries)
    /\ <<"status", status, n>> \in provider.places[qi]
    /\ issued' = Append(issued, qi)
    /\ IF status = "OK" /\ n > 0
       THEN /\ pc' = "iterate"
            /\ remaining' = n
            /\ qi' = qi
       ELSE /\ pc' = "request"
            /\ remaining' = 0
            /\ qi' = qi + 1
    /\ lastStep' = IF status = "OK" THEN "ok"
                   ELSE IF status = "ZERO_RESULTS" THEN "zero_results"
                   ELSE "warned"
    /\ skipped' = FALSE
    /\ UNCHANGED <<args, all_places_dict, result, place, seen, provider,
                   cacheVars, pageVars>>

\* end of one iteration of `for place in data.get("results", [])`
NextPlace ==
    /\ remaining' = remaining - 1
    /\ IF remaining = 1
       THEN pc' = "request" /\ qi' = qi + 1
       ELSE pc' = "iterate" /\ qi' = qi

\* history: the candidate p of query q, classified app_type, was iterated
Observe(s, p, q, app_type) ==
    IF \E r \in s : r.place_id = p.place_id
    THEN { IF r.place_id = p.place_id /\ r.qi # q
           THEN [r EXCEPT !.later = TRUE] ELSE r : r \in s }
    ELSE s \cup {[place_id |-> p.place_id, qi |-> q, app_type |-> app_type,
                  later |-> FALSE]}

\* body of the results loop for one candidate p
ProcessPlace(p) ==
    /\ pc = "iterate" /\ remaining > 0
    /\ p \in provider.catalogue
    /\ place' = Some(p)
    /\ LET app_type == AppType(PlaceNameLower(p), p.types) IN
       IF ~TruthyStr(p.place_id)
       THEN /\ lastStep' = "no_place_id"
            /\ skipped' = TRUE
            /\ NextPlace
            /\ UNCHANGED <<all_places_dict, result, seen, cacheVars>>
       ELSE /\ seen' = Observe(seen, p, qi, app_type)
            /\ IF app_type # None /\ NotInDict(p.place_id[1], all_places_dict)
               THEN IF p.geometry = None
                    THEN /\ Returns(ErrorResult("KeyError: 'geometry'",
                                                all_places_dict))
                         /\ lastStep' = "raised"
                         /\ UNCHANGED <<qi, remaining, all_places_dict, skipped>>
                    ELSE /\ all_places_dict' =
                                Append(all_places_dict,
                                       NewEntry(p, app_type[1], args, queries[qi]))
                         /\ lastStep' = "inserted"
                         /\ NextPlace
                         /\ UNCHANGED <<result, skipped, cacheVars>>
               ELSE /\ lastStep' = IF app_type = None THEN "unclassified"
                                   ELSE "duplicate"
                    /\ NextPlace
                    /\ UNCHANGED <<all_places_dict, result, skipped, cacheVars>>
    /\ UNCHANGED <<args, issued, provider, pageVars>>

\* the for loop is exhausted
ReturnMember ==
    /\ pc = "request" /\ qi > Len(queries)
    /\ Returns(MemberResult(all_places_dict))
    /\ UNCHANGED <<args, qi, remaining, all_places_dict, issued, place,
                   lastStep, skipped, seen, provider, pageVars>>

----------------------------------------------------------------------------
(* Strings of the page *)

Digits == {"0", "1", "2", "3", "4", "5", "6", "7", "8", "9"}

IsLetter(c) == \E i \in 1..26 : UpperAlphabet[i] = c

IsDigit(c) == c \in Digits

\* str.upper() of one character
UpperChar(c) ==
    IF \E i \in 1..26 : LowerAlphabet[i] = c
    THEN UpperAlphabet[CHOOSE i \in 1..26 : LowerAlphabet[i] = c]
    ELSE c

\* str.upper()
Upper(s) == [i \in 1..Len(s) |-> UpperChar(s[i])]

\* str.strip(): leading and trailing blanks removed
Strip(s) ==
    LET inked == {i \in 1..Len(s) : s[i] # " "}
    IN  IF inked = {} THEN <<>>
        ELSE SubSeq(s, CHOOSE i \in inked : \A j \in inked : i <= j,
                       CHOOSE i \in inked : \A j \in inked : j <= i)

StrNotFound ==
    <<"n", "o", "t", " ", "f", "o", "u", "n", "d">>

\* f"Postcode not found by Google: {postcode}"
MsgNotFound(postcode) ==
    <<"P", "o", "s", "t", "c", "o", "d", "e", " ", "n", "o", "t", " ", "f",
      "o", "u", "n", "d", " ", "b", "y", " ", "G", "o", "o", "g", "l", "e",
      ":", " ">>
    \o postcode

\* f"Geocoding API returned status: {data.get('status')}"
MsgStatus(status) ==
    <<"G", "e", "o", "c", "o", "d", "i", "n", "g", " ", "A", "P", "I", " ",
      "r", "e", "t", "u", "r", "n", "e", "d", " ", "s", "t", "a", "t", "u",
      "s", ":", " ">>
    \o status

StrOK == <<"O", "K">>

StrZeroResults ==
    <<"Z", "E", "R", "O", "_", "R", "E", "S", "U", "L", "T", "S">>

StrRequestDenied ==
    <<"R", "E", "Q", "U", "E", "S", "T", "_", "D", "E", "N", "I", "E", "D">>

\* str(e) of a requests timeout
StrTimeout ==
    <<"R", "e", "a", "d", " ", "t", "i", "m", "e", "d", " ", "o", "u", "t",
      ".">>

\* str(e) of the KeyError raised by data[key]
MsgKeyError(key) == <<"'">> \o key \o <<"'">>

StrStatus == <<"s", "t", "a", "t", "u", "s">>

StrResults == <<"r", "e", "s", "u", "l", "t", "s">>

StrGeometry == <<"g", "e", "o", "m", "e", "t", "r", "y">>

StrAddressComponents ==
    <<"a", "d", "d", "r", "e", "s", "s", "_", "c", "o", "m", "p", "o", "n",
      "e", "n", "t", "s">>

----------------------------------------------------------------------------
(* utils.postcode_validator.validate_postcode: the page imports it; its     *)
(* contract is the one of the specification (section 4.1): the normalized   *)
(* postcode is the text stripped and uppercased, a text of the UK postcode  *)
(* shape is valid, any other gets a reason and an empty normalized value.   *)

\* outward code: A9, A99, A9A, AA9, AA99 or AA9A
OutwardShape(o) ==
    /\ Len(o) \in 2..4
    /\ IsLetter(o[1])
    /\ \/ Len(o) = 2 /\ IsDigit(o[2])
       \/ Len(o) = 3 /\ IsDigit(o[2]) /\ (IsDigit(o[3]) \/ IsLetter(o[3]))
       \/ Len(o) = 3 /\ IsLetter(o[2]) /\ IsDigit(o[3])
       \/ Len(o) = 4 /\ IsLetter(o[2]) /\ IsDigit(o[3])
                     /\ (IsDigit(o[4]) \/ IsLetter(o[4]))

\* outward code, an optional blank, and the inward code 9AA
PostcodeShape(n) ==
    LET m == SelectSeq(n, LAMBDA c : c # " ")
        L == Len(m)
    IN  /\ L \in 5..7
        /\ Len(n) <= L + 1
        /\ Len(n) = L + 1 => n[L - 2] = " "
        /\ IsDigit(m[L - 2]) /\ IsLetter(m[L - 1]) /\ IsLetter(m[L])
        /\ OutwardShape(SubSeq(m, 1, L - 3))

StrInvalidFormat ==
    <<"I", "n", "v", "a", "l", "i", "d", " ", "p", "o", "s", "t", "c", "o",
      "d", "e", " ", "f", "o", "r", "m", "a", "t">>

\* (is_valid, normalized_postcode, error_message)
validate_postcode(text) ==
    LET n == Upper(Strip(text))
    IN  IF PostcodeShape(n)
        THEN [is_valid |-> TRUE, formatted_postcode |-> n, error_message |-> <<>>]
        ELSE [is_valid |-> FALSE, formatted_postcode |-> <<>>,
              error_message |-> StrInvalidFormat]

----------------------------------------------------------------------------
(* get_google_geocode_data *)

\* A response of the geocoding request: raises is the text of the exception
\* requests.get, raise_for_status or response.json raised (none: <<>>), kind
\* its class; data is the decoded payload.
GeocodeRaises(kind, text) == [raises |-> Some(text), kind |-> kind, data |-> None]

GeocodePayload(status, results) ==
    [raises |-> None, kind |-> "none",
     data |-> Some([status |-> status, results |-> results])]

\* one element of data["results"]
GeocodeMatch(geometry, address_components, formatted_address) ==
    [geometry |-> geometry, address_components |-> address_components,
     formatted_address |-> formatted_address]

\* data["results"][0]["geometry"]["location"]: either key may be missing
GeocodeLocation(lat, lng) == [lat |-> lat, lng |-> lng]

\* one element of address_components: either key may be missing
Component(long_name, types) == [long_name |-> long_name, types |-> types]

\* what evaluating a piece of the function gives: a value, or an exception
\* of a class with its text str(e)
Return(value) == [kind |-> "return", value |-> value]

Raise(kind, text) == [kind |-> kind, text |-> text]

StrLat == <<"l", "a", "t">>

StrLng == <<"l", "n", "g">>

StrTypes == <<"t", "y", "p", "e", "s">>

StrLongName == <<"l", "o", "n", "g", "_", "n", "a", "m", "e">>

\* next((comp["long_name"] for comp in address_components
\*       if level in comp["types"]), None): the components are visited in
\* order up to the first one of the level
RECURSIVE FirstLongName(_, _)
FirstLongName(address_components, level) ==
    IF address_components = <<>> THEN Return(None)
    ELSE LET comp == Head(address_components) IN
         IF comp.types = None THEN Raise("KeyError", MsgKeyError(StrTypes))
         ELSE IF level \in comp.types[1]
         THEN IF comp.long_name = None
              THEN Raise("KeyError", MsgKeyError(StrLongName))
              ELSE Return(Some(comp.long_name[1]))
         ELSE FirstLongName(Tail(address_components), level)

GeocodeError(message) == [error |-> message]

\* lines 50-64: the branch of an OK payload with a first result
LocationOf(postcode, first) ==
    IF first.geometry = None
    THEN Raise("KeyError", MsgKeyError(StrGeometry))
    ELSE IF first.address_components = None
    THEN Raise("KeyError", MsgKeyError(StrAddressComponents))
    ELSE LET admin_district ==
                 FirstLongName(first.address_components[1],
                               "administrative_area_level_2")
             region ==
                 FirstLongName(first.address_components[1],
                               "administrative_area_level_1")
             location == first.geometry[1]
         IN  IF admin_district.kind # "return" THEN admin_district
             ELSE IF region.kind # "return" THEN region
             ELSE IF location.lat = None
             THEN Raise("KeyError", MsgKeyError(StrLat))
             ELSE IF location.lng = None
             THEN Raise("KeyError", MsgKeyError(StrLng))
             ELSE Return([latitude |-> location.lat[1],
                          longitude |-> location.lng[1],
                          postcode |-> postcode,
                          formatted_address |->
                              IF first.formatted_address = None
                              THEN postcode
                              ELSE first.formatted_address[1],
                          admin_district |-> admin_district.value,
                          region |-> region.value])

\* lines 46-69: the body of the try statement
TryBody(postcode, resp) ==
    IF resp.raises # None THEN Raise(resp.kind, resp.raises[1])
    ELSE LET data == resp.data[1] IN
         IF data.status = None THEN Raise("KeyError", MsgKeyError(StrStatus))
         ELSE IF data.status[1] = StrOK /\ data.results = None
         THEN Raise("KeyError", MsgKeyError(StrResults))
         ELSE IF data.status[1] = StrOK /\ data.results[1] # <<>>
         THEN LocationOf(postcode, data.results[1][1])
         ELSE IF data.status[1] = StrZeroResults
         THEN Return(GeocodeError(MsgNotFound(postcode)))
         ELSE Return(GeocodeError(MsgStatus(data.status[1])))

\* the classes the function's requests can raise: all derive from Exception
ExceptionKinds == {"RequestException", "ValueError", "KeyError"}

\* variant: without the handler of lines 73-75
CatchesRequestOnly(kind) == kind = "RequestException"

\* lines 70 and 73: `except requests.exceptions.RequestException`, then
\* `except Exception`
Catches(kind) == kind = "RequestException" \/ kind \in ExceptionKinds

\* what get_google_geocode_data(postcode) gives for a response: both
\* handlers return {"error": str(e)}; an exception they do not catch leaves
\* the function
GeocodeOutcome(postcode, resp) ==
    LET body == TryBody(postcode, resp) IN
    IF body.kind = "return" THEN body
    ELSE IF Catches(body.kind) THEN Return(GeocodeError(body.text))
    ELSE body

\* variant: ZERO_RESULTS is reported like any other status
GeocodeResultNoZeroBranch(postcode, resp) ==
    IF resp.raises # None THEN GeocodeError(resp.raises[1])
    ELSE LET data == resp.data[1] IN
         IF data.status = None THEN GeocodeError(MsgKeyError(StrStatus))
         ELSE IF data.status[1] = StrOK /\ data.results # None
                 /\ data.results[1] # <<>>
         THEN LocationOf(postcode, data.results[1][1]).value
         ELSE GeocodeError(MsgStatus(data.status[1]))

\* the value get_google_geocode_data(postcode) returns for a response
GeocodeResult(postcode, resp) == GeocodeOutcome(postcode, resp).value

----------------------------------------------------------------------------
(* The page script *)

example_postcodes ==
    << <<"S", "W", "1", "A", " ", "1", "A", "A">>,
       <<"M", "1", " ", "1", "R", "G">>,
       <<"M", "2", " ", "1", "L", "T">>,
       <<"E", "1", "4", " ", "9", "G", "E">>,
       <<"E", "H", "1", " ", "1", "Y", "Z">>,
       <<"C", "F", "1", "0", " ", "1", "E", "P">> >>

NoRun ==
    [ clicked |-> FALSE,          \* search_button_clicked
      active_postcode |-> <<>>,
      examples_shown |-> FALSE,   \* the example buttons were rendered
      validated |-> None,         \* the validate_postcode call: input, result
      geocode_calls |-> <<>>,     \* arguments of get_google_geocode_data
      response |-> None,          \* the geocoding response received
      provider_status |-> None,   \* status of the geocoding payload received
      location_data |-> None,
      places_calls |-> <<>>,      \* arguments of get_google_places_data
      details |-> None,           \* the lists of the details tab, per type
      shown |-> {} ]              \* messages and sections rendered

\* The identity Streamlit gives the entry of lines 316-320, which has both a
\* value parameter and a key.  The script names no Streamlit version and the
\* releases differ: the identity is computed from the parameters of the call
\* (an entry called with another value is a new widget), or it is the key
\* (the entry stays the same widget whatever the value parameter).
WidgetIdentities == {"parameters", "key"}

\* st.text_input(value=..., key="postcode_text_entry"): a new widget holds
\* its value parameter, a widget that exists keeps its text
TextInput(w, value) ==
    IF provider.identity = "parameters" /\ w.value # value
    THEN [value |-> value, text |-> value]
    ELSE [w EXCEPT !.value = value]

\* the keys of transport_types_display, in the order of the dict
transport_types_display ==
    <<"train_station", "tube_station", "bus_stop", "tram_stop">>

\* variant: an unset distance counts as 0
SortKeyNoneAsZero(x) ==
    IF x.distance = None THEN <<0, 0>> ELSE <<0, x.distance[1]>>

\* the sort key of line 414: the distance, float('inf') when it is None.
\* A key is <<0, d>> for the number d and <<1, 0>> for infinity.
SortKey(x) == IF x.distance = None THEN <<1, 0>> ELSE <<0, x.distance[1]>>

\* a < b on keys: infinity is greater than every number
KeyLess(a, b) == a[1] < b[1] \/ (a[1] = b[1] /\ a[2] < b[2])

\* list.sort(key=...): ascending and stable; each element goes behind the
\* elements before it whose key is not greater
RECURSIVE SortByDistance(_)
SortByDistance(stations) ==
    IF stations = <<>> THEN <<>>
    ELSE LET n == Len(stations)
             x == stations[n]
             sorted == SortByDistance(SubSeq(stations, 1, n - 1))
             k == Cardinality({i \in 1..(n - 1) :
                                  ~KeyLess(SortKey(x), SortKey(sorted[i]))})
         IN  SubSeq(sorted, 1, k) \o <<x>> \o SubSeq(sorted, k + 1, n - 1)

\* lines 407-414: the places grouped by type, each group sorted.  The types
\* are the lower-case literals of the classification, which lower() keeps.
StationsByType(member) ==
    [t \in {transport_types_display[i] : i \in 1..Len(transport_types_display)}
        |-> SortByDistance(SelectSeq(member, LAMBDA place_ : place_.type = t))]

\* the branch of lines 379-437 on transport_data
RenderTransport(r, transport_data) ==
    IF "error" \in DOMAIN transport_data /\ transport_data.member = <<>>
    THEN [r EXCEPT !.shown = @ \cup {"error_transport"}]
    ELSE IF transport_data.member = <<>>
    THEN [r EXCEPT !.shown = @ \cup {"info_no_locations"}]
    ELSE [r EXCEPT !.shown =
                       @ \cup (IF "error" \in DOMAIN transport_data
                               THEN {"warning_partial"} ELSE {})
                         \cup {"map", "details"}
                         \cup (IF \A i \in 1..Len(transport_data.member) :
                                     \A j \in 1..Len(transport_types_display) :
                                        transport_data.member[i].type
                                            # transport_types_display[j]
                               THEN {"info_no_configured_types"} ELSE {}),
                    !.details = Some(StationsByType(transport_data.member))]

\* lines 364-377: the script has location_data
WithLocation(r0, location_data, radius) ==
    LET r == [r0 EXCEPT !.location_data = Some(location_data)] IN
    IF "error" \in DOMAIN location_data
    THEN /\ run' = [r EXCEPT !.shown = @ \cup {"error_location"}]
         /\ page_pc' = "idle"
         /\ UNCHANGED <<aggVars, cacheVars>>
    ELSE LET a == Args(location_data.latitude, location_data.longitude,
                       radius, Some(location_data.latitude),
                       Some(location_data.longitude))
             r1 == [r EXCEPT !.shown = @ \cup {"subheader"},
                             !.places_calls = Append(@, a)]
         IN  /\ CachedCall(a)
             /\ IF CacheHit(a)
                THEN /\ run' = RenderTransport(r1, places_cache[CacheKey(a)].value)
                     /\ page_pc' = "idle"
                ELSE /\ run' = r1
                     /\ page_pc' = "places"

\* variant: the lookup goes on whatever the validator answered
ProceedAlways(is_valid) == TRUE

\* line 358: `if not is_valid: st.error(...) else: ...`
Proceed(is_valid) == is_valid

\* variant: the flag is left as it is
KeepFlag(s) == s

\* lines 352-353 and 442-443: the flag is cleared when it was set
ClearFlag(s) == [s EXCEPT !.search_triggered_by_example = FALSE]

\* lines 349-443: the search part of the script
Search(r0, s1, should_search, radius) ==
    IF should_search /\ r0.active_postcode # <<>>
    THEN LET v == validate_postcode(r0.active_postcode)
             r == [r0 EXCEPT !.validated =
                       Some([input |-> r0.active_postcode, result |-> v])]
         IN  /\ session' = ClearFlag(s1)
             /\ IF ~Proceed(v.is_valid)
                THEN /\ run' = [r EXCEPT !.shown = @ \cup {"error_invalid"}]
                     /\ page_pc' = "idle"
                     /\ UNCHANGED <<aggVars, cacheVars, geocode_cache>>
                ELSE LET postcode == v.formatted_postcode
                         r1 == [r EXCEPT !.geocode_calls = Append(@, postcode)]
                     IN  /\ geocode_cache' = geocode_cache
                         /\ IF postcode \in DOMAIN geocode_cache
                            THEN WithLocation(r1, geocode_cache[postcode], radius)
                            ELSE /\ run' = r1
                                 /\ page_pc' = "geocode"
                                 /\ UNCHANGED <<aggVars, cacheVars>>
    ELSE /\ session' = IF should_search THEN ClearFlag(s1) ELSE s1
         /\ run' = IF should_search
                   THEN [r0 EXCEPT !.shown = @ \cup {"warning_enter_postcode"}]
                   ELSE r0
         /\ page_pc' = "idle"
         /\ UNCHANGED <<aggVars, cacheVars, geocode_cache>>

\* One run of the script, from the top to its end, to st.rerun(), or to the
\* first request it has to wait for.  w0 and radius: the state of the text
\* entry and of the slider the browser sends; clicked: the Search button
\* triggered the run; example: the index of the example button that did
\* (0: none).
ScriptRun(w0, radius, clicked, example) ==
    LET w == TextInput(w0, session.postcode_for_search)
        postcode_input_val == Upper(Strip(w.text))
        s1 == IF postcode_input_val # session.postcode_for_search
              THEN [postcode_for_search |-> postcode_input_val,
                    search_triggered_by_example |-> FALSE]
              ELSE session
        active_postcode == s1.postcode_for_search
        examples == active_postcode = <<>> /\ ~clicked
                    /\ ~s1.search_triggered_by_example
        r0 == [NoRun EXCEPT !.clicked = clicked,
                            !.active_postcode = active_postcode,
                            !.examples_shown = examples,
                            !.shown = IF examples THEN {"info_enter"} ELSE {}]
    IN  /\ widget' = w
        /\ radius_m' = radius
        /\ runs' = runs + 1
        /\ IF examples /\ example # 0
           THEN /\ session' = [postcode_for_search |-> example_postcodes[example],
                               search_triggered_by_example |-> TRUE]
                /\ run' = r0
                /\ page_pc' = "rerun"
                /\ UNCHANGED <<aggVars, cacheVars, geocode_cache>>
           ELSE Search(r0, s1, clicked \/ s1.search_triggered_by_example, radius)
        /\ UNCHANGED provider

\* the first run of the page, and the run st.rerun() asks for
Rerun ==
    /\ page_pc = "rerun"
    /\ ScriptRun(widget, radius_m, FALSE, 0)

\* the user edits the postcode entry
TypeText(t) ==
    /\ page_pc = "idle" /\ runs < MaxRuns
    /\ t # widget.text
    /\ ScriptRun([widget EXCEPT !.text = t], radius_m, FALSE, 0)

\* the user moves the radius slider
MoveSlider(radius) ==
    /\ page_pc = "idle" /\ runs < MaxRuns
    /\ radius # radius_m
    /\ ScriptRun(widget, radius, FALSE, 0)

\* the user clicks Search
ClickSearch ==
    /\ page_pc = "idle" /\ runs < MaxRuns
    /\ ScriptRun(widget, radius_m, TRUE, 0)

\* the user clicks the i-th example button, which the last run rendered
ClickExample(i) ==
    /\ page_pc = "idle" /\ runs < MaxRuns
    /\ run.examples_shown
    /\ ScriptRun(widget, radius_m, FALSE, i)

\* the geocoding response arrives: get_google_geocode_data returns, its
\* result is memoized, and the script goes on
GeocodeResponse(resp) ==
    /\ page_pc = "geocode"
    /\ resp \in provider.geocode
    /\ LET postcode == run.geocode_calls[Len(run.geocode_calls)]
           r == [run EXCEPT !.response = Some(resp),
                            !.provider_status =
                     IF resp.data = None THEN None ELSE resp.data[1].status]
       IN  IF GeocodeOutcome(postcode, resp).kind = "return"
           THEN LET location_data == GeocodeResult(postcode, resp) IN
                /\ geocode_cache' = (postcode :> location_data) @@ geocode_cache
                /\ WithLocation(r, location_data, radius_m)
           ELSE \* an exception leaves the function: the run ends with it
                /\ run' = [r EXCEPT !.shown = @ \cup {"uncaught_exception"}]
                /\ page_pc' = "idle"
                /\ UNCHANGED <<geocode_cache, aggVars, cacheVars>>
    /\ UNCHANGED <<provider, session, widget, radius_m, runs>>

\* get_google_geocode_data(postcode) called on its own: a memoized result
\* is returned at once, otherwise the request is sent
GeocodeCall(postcode) ==
    /\ page_pc = "idle"
    /\ IF postcode \in DOMAIN geocode_cache
       THEN /\ run' = [NoRun EXCEPT !.geocode_calls = <<postcode>>,
                                    !.location_data =
                                        Some(geocode_cache[postcode])]
            /\ page_pc' = "idle"
       ELSE /\ run' = [NoRun EXCEPT !.geocode_calls = <<postcode>>]
            /\ page_pc' = "geocode"
    /\ UNCHANGED <<provider, aggVars, cacheVars, session, widget, radius_m,
                   geocode_cache, runs>>

\* the response to that request arrives: the function returns and its
\* result is memoized, or an exception leaves it
GeocodeReturn(resp) ==
    /\ page_pc = "geocode"
    /\ resp \in provider.geocode
    /\ LET postcode == run.geocode_calls[1]
           outcome == GeocodeOutcome(postcode, resp)
           r == [run EXCEPT !.response = Some(resp),
                            !.provider_status =
                     IF resp.data = None THEN None ELSE resp.data[1].status]
       IN  IF outcome.kind = "return"
           THEN /\ geocode_cache' = (postcode :> outcome.value) @@ geocode_cache
                /\ run' = [r EXCEPT !.location_data = Some(outcome.value)]
           ELSE /\ geocode_cache' = geocode_cache
                /\ run' = [r EXCEPT !.shown = @ \cup {"uncaught_exception"}]
    /\ page_pc' = "idle"
    /\ UNCHANGED <<provider, aggVars, cacheVars, session, widget, radius_m,
                   runs>>

\* get_google_places_data has returned to the script
ShowTransport ==
    /\ page_pc = "places" /\ pc = "done"
    /\ run' = RenderTransport(run, result)
    /\ page_pc' = "idle"
    /\ UNCHANGED <<provider, aggVars, cacheVars, session, widget, radius_m,
                   geocode_cache, runs>>

----------------------------------------------------------------------------
(* The provider's places and the arguments of the call *)

Place(id, name, types, geometry) ==
    [place_id |-> id, name |-> name, types |-> types, geometry |-> geometry,
     vicinity |-> Some("vicinity")]

NamePlain == <<"P", "i", "c">>

NameMetrolink == <<"M", "e", "t", "r", "o", "L", "I", "N", "K">>

NameTram == <<"T", "R", "A", "M">>

NameBoth == <<"T", "r", "a", "m", " ", "M", "E", "T", "R", "O", "L", "I", "N", "K">>

\* the name key may be missing from a result
Names == {None, Some(NamePlain), Some(NameMetrolink), Some(NameTram), Some(NameBoth)}

CategoryTags ==
    {"subway_station", "light_rail_station", "train_station", "bus_station",
     "bus_stop"}

\* the page's call: the origin is the search centre
PageArgs == Args(53, -2, 1500, Some(53), Some(-2))

\* origins absent, partly absent, supplied, and supplied on the equator or
\* on the prime meridian
OriginArgs ==
    { Args(53, -2, 1500, o[1], o[2]) :
        o \in { <<None, None>>, <<Some(53), None>>, <<Some(53), Some(-2)>>,
                <<Some(0), Some(-2)>>, <<Some(53), Some(0)>> } }

\* places sharing identifiers under several names and tags, places lacking
\* an identifier, a place without geometry
AggCatalogue ==
    { Place(Some(<<"X">>), Some(NamePlain), {}, Some(<<54, -2>>)),
      Place(Some(<<"X">>), Some(NamePlain), {"train_station"}, Some(<<54, -2>>)),
      Place(Some(<<"X">>), Some(NameMetrolink), {"train_station"},
            Some(<<54, -2>>)),
      Place(Some(<<"Y">>), Some(NamePlain), {"bus_stop"}, Some(<<53, -1>>)),
      Place(Some(<<"Y">>), Some(NamePlain), {"bus_stop"}, None),
      Place(None, Some(NamePlain), {"train_station"}, Some(<<53, -2>>)),
      Place(Some(<<>>), Some(NamePlain), {"train_station"}, Some(<<53, -2>>)) }

\* one place, of any name and any set of category tags
ClassifyCatalogues ==
    { {Place(Some(<<"X">>), n, t, Some(<<54, -2>>))} :
        n \in Names, t \in SUBSET CategoryTags }

\* one place, seen from every origin
DistanceCatalogue ==
    {Place(Some(<<"Z">>), Some(NamePlain), {"bus_station"}, Some(<<53, -1>>))}

\* every outcome of a request, for every query
AllOutcomes ==
    {<<"raise", e, 0>> : e \in RequestFailures}
    \cup {<<"status", status, n>> : status \in Statuses, n \in 0..MaxResults}

Provider(catalogue, places, geocode, identity) ==
    [catalogue |-> catalogue, places |-> places, geocode |-> geocode,
     identity |-> identity]

\* the provider's places and the arguments of the call
Scenarios ==
    ({AggCatalogue} \X {PageArgs})
    \cup (ClassifyCatalogues \X {PageArgs})
    \cup ({DistanceCatalogue} \X OriginArgs)

\* the clock advances while no call is running
Tick ==
    /\ pc \in {"idle", "done"}
    /\ page_pc = "idle"
    /\ now < MaxTicks * (CacheTtl \div 2)
    /\ now' = now + (CacheTtl \div 2)
    /\ UNCHANGED <<provider, aggVars, places_cache, computed, prior, pageVars>>

\* a caller other than the page calls the memoized function
DirectCall(a) ==
    /\ pc \in {"idle", "done"}
    /\ CachedCall(a)
    /\ UNCHANGED <<provider, pageVars>>

----------------------------------------------------------------------------
(* Spec: one run of the body of get_google_places_data *)

InitCall ==
    /\ qi = 1
    /\ remaining = 0
    /\ all_places_dict = <<>>
    /\ issued = <<>>
    /\ result = NoResult
    /\ place = None
    /\ lastStep = "start"
    /\ skipped = FALSE
    /\ seen = {}
    /\ places_cache = <<>>
    /\ now = 0
    /\ computed = <<>>
    /\ prior = [same3 |-> {}, same5 |-> {}]

\* the page before its first run: lines 306-309 give the session its defaults
InitPage ==
    /\ session = [postcode_for_search |-> <<>>,
                  search_triggered_by_example |-> FALSE]
    /\ widget = [value |-> <<>>, text |-> <<>>]
    /\ radius_m = 1500
    /\ run = NoRun
    /\ geocode_cache = <<>>
    /\ runs = 0

Init ==
    /\ \E sc \in Scenarios :
           /\ provider = Provider(sc[1], [q \in 1..Len(queries) |-> AllOutcomes],
                                  {}, "parameters")
           /\ args = sc[2]
    /\ pc = "request"
    /\ InitCall
    /\ InitPage
    /\ page_pc = "idle"

Body ==
    \/ \E e \in RequestFailures : SendQueryFails(e)
    \/ \E status \in Statuses, n \in 0..MaxResults : SendQuery(status, n)
    \/ \E p \in provider.catalogue : ProcessPlace(p)
    \/ ReturnMember

Next == Body

Spec == Init /\ [][Next]_vars

----------------------------------------------------------------------------
(* SpecCache: calls of the memoized get_google_places_data over time, by a *)
(* provider whose first query finds one place or none and whose second     *)
(* query may fail                                                          *)

FewOutcomes ==
    [q \in 1..Len(queries) |->
        IF q = 1 THEN {<<"status", "OK", n>> : n \in 0..1}
        ELSE IF q = 2
        THEN {<<"raise", "RequestException", 0>>,
              <<"status", "OVER_QUERY_LIMIT", 0>>}
        ELSE {<<"status", "ZERO_RESULTS", 0>>}]

CacheProvider == Provider(DistanceCatalogue, FewOutcomes, {}, "parameters")

\* the same centre and radius seen from two origins, and another radius
CacheArgs ==
    { Args(53, -2, 1500, Some(53), Some(-2)),
      Args(53, -2, 1500, Some(54), Some(-2)),
      Args(53, -2, 1000, Some(53), Some(-2)) }

InitCache ==
    /\ provider = CacheProvider
    /\ args \in CacheArgs
    /\ pc = "idle"
    /\ InitCall
    /\ InitPage
    /\ page_pc = "idle"

NextCache ==
    \/ \E a \in CacheArgs : DirectCall(a)
    \/ Tick
    \/ Body

SpecCache == InitCache /\ [][NextCache]_vars

----------------------------------------------------------------------------
(* SpecPage: the page, from its first run, used by one visitor.  The        *)
(* geocoder finds the postcode, finds nothing, refuses the key, or the      *)
(* request times out.                                                       *)

GeocodeFound ==
    GeocodePayload(Some(StrOK),
        Some(<< GeocodeMatch(Some(GeocodeLocation(Some(53), Some(-2))),
                             Some(<< Component(Some(<<"G", "M">>),
                                         Some({"administrative_area_level_2"})) >>),
                             None) >>))

GeocodeResponses ==
    { GeocodeFound,
      GeocodePayload(Some(StrZeroResults), Some(<<>>)),
      GeocodePayload(Some(StrRequestDenied), Some(<<>>)),
      GeocodeRaises("RequestException", StrTimeout) }

PageProviders ==
    { Provider(DistanceCatalogue, FewOutcomes, GeocodeResponses, identity) :
        identity \in WidgetIdentities }

\* what the visitor types: nothing, a postcode in lower case between
\* blanks, a text that is no postcode
TypedTexts ==
    { <<>>,
      <<" ", "m", "1", " ", "1", "r", "g", " ">>,
      <<"z", "z">> }

\* positions of the slider, in metres
SliderValues == {1000, 1500}

InitPageSpec ==
    /\ provider \in PageProviders
    /\ args = PageArgs
    /\ pc = "idle"
    /\ InitCall
    /\ InitPage
    /\ page_pc = "rerun"

NextPage ==
    \/ Rerun
    \/ \E t \in TypedTexts : TypeText(t)
    \/ \E radius \in SliderValues : MoveSlider(radius)
    \/ ClickSearch
    \/ \E i \in 1..MaxExample : ClickExample(i)
    \/ \E resp \in GeocodeResponses : GeocodeResponse(resp)
    \/ Body
    \/ ShowTransport
    \/ Tick

SpecPage == InitPageSpec /\ [][NextPage]_vars

----------------------------------------------------------------------------
(* SpecGeocode: get_google_geocode_data called for two postcodes, with     *)
(* every response: an exception of the request, or a payload of any        *)
(* status, with or without results, whose first result may lack any of     *)
(* the fields the function reads                                           *)

County ==
    Component(Some(<<"G", "M">>), Some({"administrative_area_level_2"}))

Country ==
    Component(Some(<<"E", "N", "G">>),
              Some({"administrative_area_level_1", "political"}))

GeocodeComponentLists ==
    { None, Some(<<>>), Some(<<County>>), Some(<<Country, County>>),
      Some(<< Component(Some(<<"G", "M">>), None) >>),
      Some(<< Component(None, Some({"administrative_area_level_2"})) >>),
      Some(<< County, Component(Some(<<"E", "N", "G">>), None) >>) }

GeocodeGeometries ==
    { None, Some(GeocodeLocation(Some(53), Some(-2))),
      Some(GeocodeLocation(Some(53), None)),
      Some(GeocodeLocation(None, Some(-2))) }

GeocodeMatches ==
    { GeocodeMatch(g, c, f) :
        g \in GeocodeGeometries, c \in GeocodeComponentLists,
        f \in {None, Some(<<"M", "c", "r">>)} }

AllGeocodeResponses ==
    { GeocodeRaises("RequestException", StrTimeout),
      GeocodeRaises("ValueError", <<"E", "x", "p", "e", "c", "t", "i", "n", "g">>) }
    \cup { GeocodePayload(status, results) :
             status \in {None, Some(StrOK), Some(StrZeroResults),
                         Some(StrRequestDenied)},
             results \in {None, Some(<<>>)}
                         \cup {Some(<<match>>) : match \in GeocodeMatches} }

GeocodePostcodes == {example_postcodes[1], example_postcodes[2]}

InitGeocode ==
    /\ provider = Provider({}, FewOutcomes, AllGeocodeResponses, "parameters")
    /\ args = PageArgs
    /\ pc = "idle"
    /\ InitCall
    /\ InitPage
    /\ page_pc = "idle"

NextGeocode ==
    \/ \E postcode \in GeocodePostcodes : GeocodeCall(postcode)
    \/ \E resp \in AllGeocodeResponses : GeocodeReturn(resp)

SpecGeocode == InitGeocode /\ [][NextGeocode]_vars

----------------------------------------------------------------------------
(* SpecDetails: the details tab rendered for every aggregated result of up *)
(* to MaxMembers places, of any type and with any distance, set or unset   *)

\* the i-th place of a result
DetailPlace(i, type, distance) ==
    [ name |-> Some(NamePlain),
      latitude |-> 53,
      longitude |-> -1,
      type |-> type,
      description |-> None,
      google_place_id |-> <<UpperAlphabet[i]>>,
      distance |-> distance,
      google_types |-> {},
      debug_query_source |-> queries[1] ]

DetailTypes == {"train_station", "bus_stop"}

DetailDistances == {None, Some(0), Some(70)}

DetailMembers ==
    UNION { { [i \in 1..n |-> DetailPlace(i, f[i][1], f[i][2])] :
                f \in [1..n -> DetailTypes \X DetailDistances] } :
            n \in 0..MaxMembers }

InitDetails ==
    /\ provider = Provider({}, FewOutcomes, {}, "parameters")
    /\ args = PageArgs
    /\ pc = "done"
    /\ qi = Len(queries) + 1
    /\ remaining = 0
    /\ all_places_dict = <<>>
    /\ issued = <<>>
    /\ \E member \in DetailMembers : result = MemberResult(member)
    /\ place = None
    /\ lastStep = "start"
    /\ skipped = FALSE
    /\ seen = {}
    /\ places_cache = <<>>
    /\ now = 0
    /\ computed = <<>>
    /\ prior = [same3 |-> {}, same5 |-> {}]
    /\ session = [postcode_for_search |-> example_postcodes[2],
                  search_triggered_by_example |-> FALSE]
    /\ widget = [value |-> example_postcodes[2], text |-> example_postcodes[2]]
    /\ radius_m = 1500
    /\ run = [NoRun EXCEPT !.clicked = TRUE,
                           !.active_postcode = example_postcodes[2],
                           !.places_calls = <<PageArgs>>,
                           !.shown = {"subheader"}]
    /\ geocode_cache = <<>>
    /\ runs = 1
    /\ page_pc = "places"

NextDetails == ShowTransport

SpecDetails == InitDetails /\ [][NextDetails]_vars

----------------------------------------------------------------------------
(* Properties of get_google_places_data *)

\* indices of the entries stored under an identifier
EntriesFor(id) ==
    {i \in 1..Len(all_places_dict) : all_places_dict[i].google_place_id = id}

\* C1 as stated: when two queries returned candidates with the same
\* place_id, the result holds exactly one entry for it, and its type is the
\* classification of the candidate of the earlier query, whatever the names
\* and tags of the two candidates.
C1_EarlierQueryWins ==
    \A r \in seen :
        r.later =>
            /\ Cardinality(EntriesFor(r.place_id[1])) = 1
            /\ \A i \in EntriesFor(r.place_id[1]) :
                   r.app_type = Some(all_places_dict[i].type)

\* C1 amended: no place_id has two entries; and when the first candidate
\* iterated with a place_id is classified, a candidate of a later query with
\* the same place_id changes nothing: the one entry keeps the type and the
\* query of the first.
C1_FirstClassifiedWins ==
    /\ \A i, j \in 1..Len(all_places_dict) :
           all_places_dict[i].google_place_id = all_places_dict[j].google_place_id
               => i = j
    /\ \A r \in seen :
           (r.later /\ r.app_type # None) =>
               /\ Cardinality(EntriesFor(r.place_id[1])) = 1
               /\ \A i \in EntriesFor(r.place_id[1]) :
                      /\ all_places_dict[i].type = r.app_type[1]
                      /\ all_places_dict[i].debug_query_source = queries[r.qi]

\* C1 witness: a later query returned a recorded identifier with a name and
\* tags that classify differently, and it was ignored
C1_Witness ==
    /\ lastStep = "duplicate"
    /\ \E r \in seen :
           /\ r.later /\ r.app_type # None
           /\ r.place_id = place[1].place_id
           /\ r.qi < qi
           /\ AppType(PlaceNameLower(place[1]), place[1].types) # r.app_type

\* `sub in name.lower()` stated on the name itself: some window of the name
\* spells sub when letter case is ignored
ContainsAnyCase(sub, name) ==
    \E i \in 0..(Len(name) - Len(sub)) :
        \A k \in 1..Len(sub) : LowerChar(name[i + k]) = sub[k]

\* the ordered rule list of the classification: <<condition, mode>>
ModeRules(name, tags) ==
    << <<ContainsAnyCase(StrMetrolink, name), "tram_stop">>,
       <<"subway_station" \in tags, "tube_station">>,
       <<"light_rail_station" \in tags, "tram_stop">>,
       <<ContainsAnyCase(StrTram, name) /\ "train_station" \notin tags,
         "tram_stop">>,
       <<"train_station" \in tags, "train_station">>,
       <<"bus_station" \in tags \/ "bus_stop" \in tags, "bus_stop">> >>

\* the mode of the first rule whose condition holds, None when none does
RuleMode(optName, tags) ==
    LET name == IF optName = None THEN <<>> ELSE optName[1]
        rules == ModeRules(name, tags)
        hits == {i \in 1..Len(rules) : rules[i][1]}
    IN  IF hits = {} THEN None
        ELSE Some(rules[CHOOSE i \in hits : \A j \in hits : i <= j][2])

LastEntry == all_places_dict[Len(all_places_dict)]

\* C2: the type of every stored place is the mode of the first matching
\* rule of the ordered list (1)-(6) applied to its name and tags; the
\* candidate just inserted got that mode; a candidate is discarded as
\* unclassified exactly when no rule matches, and no such candidate is stored.
C2_ModeFollowsRuleOrder ==
    /\ \A i \in 1..Len(all_places_dict) :
           RuleMode(all_places_dict[i].name, all_places_dict[i].google_types)
               = Some(all_places_dict[i].type)
    /\ lastStep = "inserted" =>
           /\ LastEntry.google_place_id = place[1].place_id[1]
           /\ Some(LastEntry.type) = RuleMode(place[1].name, place[1].types)
    /\ lastStep = "duplicate" => RuleMode(place[1].name, place[1].types) # None
    /\ lastStep = "unclassified" => RuleMode(place[1].name, place[1].types) = None

\* C2 witness: a place named with "Metrolink" in mixed case, tagged
\* subway_station and train_station, is stored as tram_stop
C2_Witness ==
    /\ lastStep = "inserted"
    /\ place[1].name # None
    /\ ContainsAnyCase(StrMetrolink, place[1].name[1])
    /\ place[1].name[1] # StrMetrolink
    /\ {"subway_station", "train_station"} \subseteq place[1].types
    /\ LastEntry.type = "tram_stop"

NameHasNeither(optName) ==
    LET name == IF optName = None THEN <<>> ELSE optName[1]
    IN  ~ContainsAnyCase(StrMetrolink, name) /\ ~ContainsAnyCase(StrTram, name)

\* C3 as stated: every stored place tagged light_rail_station whose name
\* contains neither "metrolink" nor "tram" is a tram_stop, whatever its
\* other tags.
C3_LightRailIsTram ==
    \A i \in 1..Len(all_places_dict) :
        ("light_rail_station" \in all_places_dict[i].google_types
            /\ NameHasNeither(all_places_dict[i].name))
        => all_places_dict[i].type = "tram_stop"

\* C3 amended: every candidate tagged light_rail_station and not
\* subway_station whose name contains neither "metrolink" nor "tram" is
\* classified tram_stop, whatever its other tags: it is never discarded as
\* unclassified, and when stored its type is tram_stop.
C3_LightRailNotSubwayIsTram ==
    /\ \A i \in 1..Len(all_places_dict) :
           ("light_rail_station" \in all_places_dict[i].google_types
               /\ "subway_station" \notin all_places_dict[i].google_types
               /\ NameHasNeither(all_places_dict[i].name))
           => all_places_dict[i].type = "tram_stop"
    /\ lastStep = "unclassified" => "light_rail_station" \notin place[1].types

\* C3 witness: a plainly named place tagged light_rail_station, train_station
\* and bus_stop is stored as tram_stop
C3_Witness ==
    /\ lastStep = "inserted"
    /\ NameHasNeither(place[1].name)
    /\ place[1].types = {"light_rail_station", "train_station", "bus_stop"}
    /\ LastEntry.type = "tram_stop"

\* C4: a failure at query k (raised by the request, by the payload, or by a
\* result that cannot be processed) ends the call at once: the queries
\* issued are exactly 1..k, the places stored so far are left as they are
\* and are the returned member list, and the result carries "error"; with
\* k = 1 and nothing processed the member list is empty.
C4_FailureReturnsPartial ==
    /\ [](lastStep = "raised" =>
             /\ pc = "done"
             /\ "error" \in DOMAIN result
             /\ result.member = all_places_dict
             /\ issued = [i \in 1..qi |-> i]
             /\ (qi = 1 /\ place = None => result.member = <<>>))
    /\ [][lastStep' = "raised" => all_places_dict' = all_places_dict]_vars

\* C4 witness: the third query fails after two places were stored
C4_Witness ==
    /\ pc = "done" /\ lastStep = "raised"
    /\ qi = 3
    /\ Len(result.member) = 2

\* C5: a status other than OK and ZERO_RESULTS stores nothing, returns
\* nothing and moves on to the next query; queries are issued one after
\* another in the fixed order; a call that ends without a failure has
\* issued all seven, and its result carries no "error".
C5_StatusErrorSkipsQuery ==
    /\ [](\A i \in 1..Len(issued) : issued[i] = i)
    /\ []((pc = "done" /\ lastStep # "raised") =>
             /\ issued = <<1, 2, 3, 4, 5, 6, 7>>
             /\ DOMAIN result = {"member"})
    /\ [][(lastStep' = "warned" /\ issued' # issued) =>
             /\ all_places_dict' = all_places_dict
             /\ result' = result
             /\ pc' = "request"
             /\ qi' = qi + 1]_vars

\* C5 witness: a call whose seventh query returned an error status ended
\* without "error", with the places of the other queries
C5_Witness ==
    /\ pc = "done" /\ lastStep = "warned"
    /\ "error" \notin DOMAIN result
    /\ Len(result.member) > 0

\* C6: a stored place has its distance from the origin whenever both origin
\* coordinates were passed, 0 included, and None only when they were not.
C6_DistanceWheneverOriginSupplied ==
    \A i \in 1..Len(all_places_dict) :
        all_places_dict[i].distance =
            IF args.origin_lat # None /\ args.origin_lon # None
            THEN Some(haversine(args.origin_lat[1], args.origin_lon[1],
                                all_places_dict[i].latitude,
                                all_places_dict[i].longitude))
            ELSE None

\* C7: no stored or returned place lacks an identifier, and skipping a
\* candidate without one touches nothing and goes on to the next candidate
\* of the response.
C7_NoPlaceWithoutId ==
    /\ [](\A i \in 1..Len(all_places_dict) :
              all_places_dict[i].google_place_id # <<>>)
    /\ [](pc = "done" =>
              \A i \in 1..Len(result.member) :
                  result.member[i].google_place_id # <<>>)
    /\ [][(lastStep' = "no_place_id" /\ remaining' # remaining) =>
             /\ all_places_dict' = all_places_dict
             /\ IF remaining > 1
                THEN pc' = "iterate" /\ remaining' = remaining - 1 /\ qi' = qi
                ELSE pc' = "request" /\ qi' = qi + 1]_vars

\* C7 witness: after a candidate without identifier was skipped, a later
\* candidate of the same response was stored
C7_Witness ==
    /\ skipped
    /\ lastStep = "inserted"

----------------------------------------------------------------------------
(* Properties of the memoization of get_google_places_data *)

\* C10 as stated: a call made while a result computed for the same lat, lon
\* and radius is younger than the time-to-live issues no query and returns
\* that result, whatever the origin passed; otherwise the queries are issued.
C10_MemoPerLatLonRadius ==
    pc = "done" =>
        IF prior.same3 # {}
        THEN issued = <<>> /\ result \in prior.same3
        ELSE issued # <<>>

\* C10 amended: the result is memoized per (lat, lon, radius, origin_lat,
\* origin_lon): a call made while a result computed for the same five
\* arguments is younger than the time-to-live (600 s) issues no query and
\* returns that result; any other call, one with another origin or one made
\* after the time-to-live has elapsed, issues the queries again.
C10_MemoPerAllArguments ==
    pc = "done" =>
        IF prior.same5 # {}
        THEN issued = <<>> /\ result \in prior.same5 /\ lastStep = "cached"
        ELSE issued # <<>> /\ lastStep # "cached"

\* C10 witness: a call is served from the cache 300 s after results were
\* computed for its centre and radius from two origins
C10_Witness ==
    /\ pc = "done" /\ lastStep = "cached"
    /\ now = 300
    /\ Cardinality(prior.same3) = 2
    /\ Len(result.member) = 1

----------------------------------------------------------------------------
(* Properties of the page's lookup flow *)

\* the run holds a geocode result without an "error" key
HasLocation(r) ==
    r.location_data # None /\ "error" \notin DOMAIN r.location_data[1]

\* C8: when the geocoding provider answers ZERO_RESULTS, the geocode result
\* of the run is an error whose message contains "not found", the run calls
\* get_google_places_data not at all and ends with the location error; in
\* every run get_google_places_data is called, and a nearby-search query
\* issued, only with a geocode result that has no "error" key, at the
\* coordinates of that result.
C8_ZeroResultsStopsLookup ==
    /\ [](/\ run.provider_status = Some(StrZeroResults) =>
                /\ run.location_data # None
                /\ "error" \in DOMAIN run.location_data[1]
                /\ Contains(StrNotFound, run.location_data[1].error)
                /\ run.places_calls = <<>>
                /\ page_pc = "idle"
                /\ "error_location" \in run.shown
          /\ run.places_calls # <<>> =>
                /\ HasLocation(run)
                /\ run.geocode_calls # <<>>
                /\ Len(run.places_calls) = 1
                /\ run.places_calls[1].lat = run.location_data[1].latitude
                /\ run.places_calls[1].lon = run.location_data[1].longitude
          /\ pc \in {"request", "iterate"} =>
                /\ page_pc = "places"
                /\ run.places_calls # <<>>
                /\ args = run.places_calls[1])
    /\ [][Len(issued') > Len(issued) =>
            /\ page_pc = "places"
            /\ HasLocation(run)
            /\ run.provider_status # Some(StrZeroResults)]_vars

\* C8 witness: the provider has answered ZERO_RESULTS to the lookup of an
\* example postcode and the run is over
C8_Witness ==
    /\ run.provider_status = Some(StrZeroResults)
    /\ run.geocode_calls = <<example_postcodes[2]>>
    /\ page_pc = "idle"
    /\ run.location_data = Some(GeocodeError(MsgNotFound(example_postcodes[2])))

\* C9: a run in which validate_postcode reports the active postcode invalid
\* calls neither get_google_geocode_data nor get_google_places_data and
\* shows the validation error; a run that calls get_google_geocode_data has
\* validated its active postcode before, got is_valid = True, and passes the
\* validator's normalized postcode; so only valid postcodes are ever
\* memoized.
C9_InvalidPostcodeMakesNoCall ==
    /\ (run.validated # None /\ ~run.validated[1].result.is_valid) =>
          /\ run.geocode_calls = <<>>
          /\ run.places_calls = <<>>
          /\ run.location_data = None
          /\ "error_invalid" \in run.shown
          /\ page_pc = "idle"
    /\ run.geocode_calls # <<>> =>
          /\ run.validated # None
          /\ run.validated[1].input = run.active_postcode
          /\ run.validated[1].result.is_valid
          /\ run.geocode_calls = <<run.validated[1].result.formatted_postcode>>
    /\ page_pc = "geocode" => run.geocode_calls # <<>>
    /\ run.location_data # None => run.geocode_calls # <<>>
    /\ \A postcode \in DOMAIN geocode_cache : validate_postcode(postcode).is_valid

\* C9 witness: Search was clicked on a text that is no postcode
C9_Witness ==
    /\ run.clicked
    /\ run.active_postcode = <<"Z", "Z">>
    /\ run.validated # None /\ ~run.validated[1].result.is_valid
    /\ "error_invalid" \in run.shown

\* the rerun an example click has asked for is due
ExampleRerunDue == page_pc = "rerun" /\ session.search_triggered_by_example

\* on the rerun after the click of an example button: the session and the
\* text entry hold the example, Search was not clicked, the example is
\* validated and, when valid, looked up
ExampleSearched ==
    LET example == session.postcode_for_search IN
    /\ session'.postcode_for_search = example
    /\ widget'.text = example
    /\ ~run'.clicked
    /\ run'.active_postcode = example
    /\ run'.validated # None
    /\ run'.validated[1].input = example
    /\ run'.validated[1].result.is_valid => run'.geocode_calls = <<example>>

\* C11 as stated: a click on an example button stores that example and asks
\* for a rerun, and on that rerun postcode_for_search and the value the text
\* entry returns equal the example, and the example is validated and, when
\* valid, geocoded, without a click on Search.
C11_ExampleClickSearches ==
    /\ [][(page_pc = "idle" /\ page_pc' = "rerun") =>
            /\ run.examples_shown
            /\ \E i \in 1..Len(example_postcodes) :
                   session'.postcode_for_search = example_postcodes[i]
            /\ session'.search_triggered_by_example]_vars
    /\ [][ExampleRerunDue => ExampleSearched]_vars

\* C11 where the identity of the entry is computed from its parameters: the
\* rerun creates the entry anew with the example as its value, and the
\* search is made
C11_ExampleClickSearchesNewWidget ==
    [][(ExampleRerunDue /\ provider.identity = "parameters")
          => ExampleSearched]_vars

\* C11 where the identity of the entry is its key: on the rerun the entry
\* returns the text it held, the empty text, lines 322-324 put it back into
\* postcode_for_search and clear the flag, and no search is made
C11_ExampleClickLostKeyedWidget ==
    [][(ExampleRerunDue /\ provider.identity = "key") =>
          /\ widget'.text = <<>>
          /\ session'.postcode_for_search = <<>>
          /\ ~session'.search_triggered_by_example
          /\ run'.validated = None
          /\ run'.geocode_calls = <<>>
          /\ run'.examples_shown
          /\ page_pc' = "idle"]_vars

----------------------------------------------------------------------------
(* Properties of get_google_geocode_data *)

LocationKeys ==
    {"latitude", "longitude", "postcode", "formatted_address",
     "admin_district", "region"}

\* the status is OK and the result list is not empty
OkWithResults(resp) ==
    /\ resp.raises = None
    /\ resp.data[1].status = Some(StrOK)
    /\ resp.data[1].results # None
    /\ resp.data[1].results[1] # <<>>

\* the first result has every field the function reads
HasEveryField(first) ==
    /\ first.geometry # None
    /\ first.geometry[1].lat # None /\ first.geometry[1].lng # None
    /\ first.address_components # None
    /\ \A i \in 1..Len(first.address_components[1]) :
          /\ first.address_components[1][i].types # None
          /\ first.address_components[1][i].long_name # None

\* the names of the components of a level
NamesOfLevel(first, level) ==
    { first.address_components[1][i].long_name :
        i \in { j \in 1..Len(first.address_components[1]) :
                  level \in first.address_components[1][j].types[1] } }

\* C12: a call of get_google_geocode_data that received a response has
\* returned (no exception left it) either a Location, with exactly the six
\* keys, or an error result, with exactly the key "error"; it is a Location
\* only when the status is OK and the result list non-empty, and then it
\* carries the coordinates of the first result, the postcode passed, the
\* formatted address (the postcode when absent) and the district and region
\* (None when no component has the level); it is a Location whenever the
\* first result of an OK payload has every field.
C12_GeocodeNeverRaises ==
    run.response # None =>
        /\ "uncaught_exception" \notin run.shown
        /\ run.location_data # None
        /\ LET v == run.location_data[1]
               resp == run.response[1]
               postcode == run.geocode_calls[1]
           IN  /\ DOMAIN v = {"error"} \/ DOMAIN v = LocationKeys
               /\ DOMAIN v = {"error"} => v.error # <<>>
               /\ ~OkWithResults(resp) => DOMAIN v = {"error"}
               /\ resp.raises # None => v.error = resp.raises[1]
               /\ (OkWithResults(resp)
                     /\ HasEveryField(resp.data[1].results[1][1]))
                   => DOMAIN v = LocationKeys
               /\ DOMAIN v = LocationKeys =>
                     LET first == resp.data[1].results[1][1] IN
                     /\ OkWithResults(resp)
                     /\ Some(v.latitude) = first.geometry[1].lat
                     /\ Some(v.longitude) = first.geometry[1].lng
                     /\ v.postcode = postcode
                     /\ v.formatted_address =
                            IF first.formatted_address = None THEN postcode
                            ELSE first.formatted_address[1]
                     /\ \A lv \in {"administrative_area_level_2",
                                   "administrative_area_level_1"} :
                          LET w == IF lv = "administrative_area_level_2"
                                   THEN v.admin_district ELSE v.region
                          IN  IF NamesOfLevel(first, lv) = {} THEN w = None
                              ELSE w \in NamesOfLevel(first, lv)
               /\ geocode_cache[postcode] = v

\* C12 witness: an OK payload whose first result lacks the longitude has
\* given the error result of the KeyError
C12_Witness ==
    /\ run.response # None
    /\ OkWithResults(run.response[1])
    /\ run.location_data = Some(GeocodeError(MsgKeyError(StrLng)))

----------------------------------------------------------------------------
(* Properties of the details tab *)

\* the position of a place in the aggregated result
PositionIn(member, x) == CHOOSE i \in 1..Len(member) : member[i] = x

\* C13: each list of the details tab holds exactly the places of its type;
\* of two places of a list, the earlier has the smaller or the same
\* distance when both are set, a place without distance is never before one
\* with a distance, and places of the same distance, or both without, are
\* in the order of the aggregated result.
C13_GroupsSortedByDistance ==
    run.details # None =>
        \A t \in DOMAIN run.details[1] :
            LET g == run.details[1][t]
                member == result.member
            IN  /\ {g[i] : i \in 1..Len(g)}
                      = {member[i] : i \in {j \in 1..Len(member) :
                                              member[j].type = t}}
                /\ Len(g) = Cardinality({j \in 1..Len(member) :
                                            member[j].type = t})
                /\ \A i \in 1..Len(g), j \in 1..Len(g) :
                      i < j =>
                        /\ g[i].distance = None => g[j].distance = None
                        /\ (g[i].distance # None /\ g[j].distance # None)
                              => g[i].distance[1] <= g[j].distance[1]
                        /\ g[i].distance = g[j].distance
                              => PositionIn(member, g[i])
                                    < PositionIn(member, g[j])

\* C13 witness: a result listing a bus stop without distance, then one at
\* 70 m, one at 0 m and one at 70 m, is shown as 0 m, 70 m, 70 m, unset
C13_Witness ==
    /\ run.details # None
    /\ Len(result.member) = 4
    /\ \A i \in 1..4 : result.member[i].type = "bus_stop"
    /\ result.member[1].distance = None
    /\ result.member[2].distance = Some(70)
    /\ result.member[3].distance = Some(0)
    /\ result.member[4].distance = Some(70)
    /\ run.details[1]["bus_stop"]
          = << result.member[3], result.member[2], result.member[4],
               result.member[1] >>

----------------------------------------------------------------------------
(* Properties of the session flag *)

\* C14: search_triggered_by_example is set only while the rerun an example
\* click asked for is due: it is cleared when a run ends, and already when a
\* run waits for the geocoder or the places; a run validates a postcode only
\* when Search was clicked in it or when it is the rerun of an example
\* click, so one click gives at most one search and a later run without a
\* click on Search gives none.
C14_FlagClearedByEveryRun ==
    /\ [](session.search_triggered_by_example => page_pc = "rerun")
    /\ [][(runs' = runs + 1 /\ run'.validated # None)
            => (run'.clicked \/ ExampleRerunDue)]_vars
    /\ [][(runs' = runs + 1 /\ ExampleRerunDue)
            => ~session'.search_triggered_by_example]_vars

\* C14 witness: the search of an example click is over, Search was not
\* clicked, and the flag is cleared
C14_Witness ==
    /\ page_pc = "idle"
    /\ ~run.clicked
    /\ run.geocode_calls = <<example_postcodes[1]>>
    /\ run.location_data # None
    /\ ~session.search_triggered_by_example

====
